---- MODULE Spec2Model ----
(***************************************************************************)
(* Brute-force set packing of community/aqua/optimization/set_packing.ipynb *)
(* (cell 2, brute_force and its helper bitfield).                          *)
(*                                                                         *)
(* list_of_subsets is a JSON array of arrays of integers; every subset is  *)
(* used as a set of integers.  setpacking.check_disjoint and               *)
(* numpy.binary_repr are library calls of the notebook; their bodies are   *)
(* not part of the notebook.                                               *)
(***************************************************************************)
EXTENDS Integers, Sequences, FiniteSets, Bags, TLC

VARIABLES
    list_of_subsets,  \* the collection loaded from the input file
    L,                \* brute_force: L = len(list_of_subsets); bitfield: its L
    i,                \* brute_force: the loop variable
    cur,              \* brute_force: the selection vector bitfield returned
    cur_v,            \* brute_force: what check_disjoint returned
    max_v,            \* brute_force: the running maximum
    pc,               \* position in the cell
    n,                \* bitfield: its n
    result,           \* what brute_force returned
    evaluated,        \* candidates folded so far, when taken in any order
    other,            \* a second collection (reordered or extended)
    result_other,     \* what brute_force returned for it
    seen              \* check_disjoint: the elements seen so far

vars == <<list_of_subsets, L, i, cur, cur_v, max_v, pc, n, result, evaluated,
          other, result_other, seen>>

\* ---------------------------------------------------------------- bounds
\* Largest number of subsets in a collection.
MaxL == 3
\* Number of elements of the universe, which is 4 .. 3 + UniverseSize.
UniverseSize == 2
\* Largest collection of the evaluation-order specification.
MaxLAny == 2
\* bitfield is applied to n in 0 .. 2^MaxL + ExtraN - 1.
ExtraN == 8

Universe == 4 .. (3 + UniverseSize)

RECURSIVE Pow2(_)
Pow2(k) == IF k = 0 THEN 1 ELSE 2 * Pow2(k - 1)

\* All collections of at most m subsets of the universe, as sequences of sets.
Collections(m) == UNION {[1 .. k -> SUBSET Universe] : k \in 0 .. m}

\* ------------------------------------------------------------- bitfield
\* bin(num)[2:] for num > 0: the binary digits, most significant first.
RECURSIVE bin(_)
bin(num) == IF num < 2 THEN <<IF num = 1 THEN "1" ELSE "0">>
            ELSE Append(bin(num \div 2), IF num % 2 = 1 THEN "1" ELSE "0")

\* str.zfill(width): pad with "0" on the left up to width, never truncate.
zfill(s, width) ==
    IF Len(s) >= width THEN s
    ELSE [k \in 1 .. (width - Len(s)) |-> "0"] \o s

\* np.binary_repr(num, width) for num >= 0 (NumPy 1.x, the NumPy of the
\* notebook's Python 3.6 kernel): '0' * (width or 1) for num = 0; otherwise
\* bin(num)[2:].zfill(max(binwidth, width)).  An insufficient width only
\* raises a DeprecationWarning and the full representation is returned.
binary_repr(num, width) ==
    IF num = 0
    THEN [k \in 1 .. (IF width = 0 THEN 1 ELSE width) |-> "0"]
    ELSE LET binary == bin(num)
             binwidth == Len(binary)
             outwidth == IF binwidth > width THEN binwidth ELSE width
         IN  zfill(binary, outwidth)

\* int(digit) for a digit character.
int(digit) == IF digit = "1" THEN 1 ELSE 0

\* A truncating variant: keeps only the low `width` digits.
bitfield_truncating(num, width) ==
    LET r == binary_repr(num, width)
    IN  [k \in 1 .. width |-> int(r[Len(r) - width + k])]

\* A least-significant-bit-first variant.
bitfield_lsb_first(num, width) ==
    LET r == binary_repr(num, width)
    IN  [k \in 1 .. Len(r) |-> int(r[Len(r) + 1 - k])]

\* bitfield(n, L): [int(digit) for digit in np.binary_repr(n, L)].
bitfield(num, width) ==
    LET r == binary_repr(num, width)
    IN  [k \in 1 .. Len(r) |-> int(r[k])]

\* np.count_nonzero(cur).
count_nonzero(s) == Cardinality({k \in 1 .. Len(s) : s[k] # 0})

\* -------------------------------------------------------- check_disjoint
\* One scan over the positions in order, keeping the elements seen in the
\* selected subsets so far; fails at the first selected subset that holds an
\* element already seen.

\* Fails only when every element of the subset was seen.
already_seen_all(subset, so_far) == subset \subseteq so_far

\* An element of the subset is already seen.
already_seen(subset, so_far) == subset \cap so_far # {}

\* Keeps the last selected subset only.
remember_last(subset, so_far) == subset

\* The elements seen, after a selected subset passed.
remember(subset, so_far) == so_far \cup subset

RECURSIVE scan(_, _, _, _)
scan(selection, subsets, k, so_far) ==
    IF k > Len(subsets) THEN TRUE
    ELSE IF selection[k] = 1
         THEN IF already_seen(subsets[k], so_far) THEN FALSE
              ELSE scan(selection, subsets, k + 1, remember(subsets[k], so_far))
         ELSE scan(selection, subsets, k + 1, so_far)

\* setpacking.check_disjoint(selection, subsets).
check_disjoint(selection, subsets) == scan(selection, subsets, 1, {})

\* ----------------------------------------------------------- brute_force
\* max_v is -np.inf or a count.
NegInf == [neg_inf |-> TRUE, v |-> 0]
Fin(k) == [neg_inf |-> FALSE, v |-> k]

\* k > m for a count k and a running maximum m.
Gt(k, m) == m.neg_inf \/ k > m.v

\* The loop body with the comparison reversed.
update_reversed(mv, c, subsets) ==
    IF check_disjoint(c, subsets)
    THEN IF ~Gt(count_nonzero(c), mv) THEN Fin(count_nonzero(c)) ELSE mv
    ELSE mv

\* The loop body without the comparison: the last valid candidate wins.
update_last(mv, c, subsets) ==
    IF check_disjoint(c, subsets) THEN Fin(count_nonzero(c)) ELSE mv

\* The loop body that counts every candidate, disjoint or not.
update_unchecked(mv, c, subsets) ==
    IF Gt(count_nonzero(c), mv) THEN Fin(count_nonzero(c)) ELSE mv

\* The loop body after cur = bitfield(i, L): the new value of max_v.
update(mv, c, subsets) ==
    IF check_disjoint(c, subsets)
    THEN IF Gt(count_nonzero(c), mv) THEN Fin(count_nonzero(c)) ELSE mv
    ELSE mv

\* 2**(L-1) candidates: the exponent is off by one.
max_half(len) == Pow2(len) \div 2

\* max = 2**L, the number of candidates.
max(len) == Pow2(len)

\* The for loop from i on, as a function of the collection.
RECURSIVE loop(_, _, _)
loop(subsets, k, mv) ==
    IF k >= max(Len(subsets)) THEN mv
    ELSE loop(subsets, k + 1, update(mv, bitfield(k, Len(subsets)), subsets))

\* brute_force() for list_of_subsets = subsets.
brute_force(subsets) == loop(subsets, 0, NegInf)

Idle ==
    /\ L = 0 /\ i = 0 /\ cur = <<>> /\ cur_v = FALSE /\ max_v = NegInf
    /\ n = 0 /\ result = NegInf /\ evaluated = {} /\ other = <<>>
    /\ result_other = NegInf /\ seen = {}

\* --- the cell as it runs: L, max, max_v, then the for loop, then return
Init ==
    /\ list_of_subsets \in Collections(MaxL)
    /\ pc = "start"
    /\ Idle

Start ==
    /\ pc = "start"
    /\ L' = Len(list_of_subsets)
    /\ max_v' = NegInf
    /\ i' = 0
    /\ pc' = "loop"
    /\ UNCHANGED <<list_of_subsets, cur, cur_v, n, result, evaluated, other, result_other, seen>>

LoopBody ==
    /\ pc = "loop"
    /\ i < max(L)
    /\ cur' = bitfield(i, L)
    /\ cur_v' = check_disjoint(cur', list_of_subsets)
    /\ max_v' = update(max_v, cur', list_of_subsets)
    /\ i' = i + 1
    /\ UNCHANGED <<list_of_subsets, L, pc, n, result, evaluated, other, result_other, seen>>

Return ==
    /\ pc = "loop"
    /\ i >= max(L)
    /\ result' = max_v
    /\ pc' = "done"
    /\ UNCHANGED <<list_of_subsets, L, i, cur, cur_v, max_v, n, evaluated, other, result_other, seen>>

Next == Start \/ LoopBody \/ Return

Spec == Init /\ [][Next]_vars

\* --- bitfield applied to one (n, L), also outside the loop's range
InitBitfield ==
    /\ n \in 0 .. (Pow2(MaxL) + ExtraN - 1)
    /\ L \in 0 .. MaxL
    /\ pc = "call"
    /\ list_of_subsets = <<>> /\ i = 0 /\ cur = <<>> /\ cur_v = FALSE
    /\ max_v = NegInf /\ result = NegInf /\ evaluated = {} /\ other = <<>>
    /\ result_other = NegInf /\ seen = {}

\* cur = bitfield(n, L).  No path of bitfield raises: it returns in every case.
CallBitfield ==
    /\ pc = "call"
    /\ cur' = bitfield(n, L)
    /\ pc' = "returned"
    /\ UNCHANGED <<list_of_subsets, L, i, cur_v, max_v, n, result, evaluated, other,
                   result_other, seen>>

NextBitfield == CallBitfield

SpecBitfield == InitBitfield /\ [][NextBitfield]_vars

\* --- check_disjoint applied to one selection vector of matching length
InitCheck ==
    /\ list_of_subsets \in Collections(MaxL)
    /\ cur \in [1 .. Len(list_of_subsets) -> {0, 1}]
    /\ pc = "call"
    /\ L = Len(list_of_subsets)
    /\ i = 0 /\ cur_v = FALSE /\ max_v = NegInf /\ n = 0 /\ result = NegInf
    /\ evaluated = {} /\ other = <<>> /\ result_other = NegInf /\ seen = {}

\* cur_v = setpacking.check_disjoint(cur, list_of_subsets).
CallCheckDisjoint ==
    /\ pc = "call"
    /\ cur_v' = check_disjoint(cur, list_of_subsets)
    /\ pc' = "returned"
    /\ UNCHANGED <<list_of_subsets, L, i, cur, max_v, n, result, evaluated, other,
                   result_other, seen>>

NextCheck == CallCheckDisjoint

SpecCheck == InitCheck /\ [][NextCheck]_vars

\* --- the single pass of check_disjoint, one position at a time
InitScan ==
    /\ list_of_subsets \in Collections(MaxL)
    /\ cur \in [1 .. Len(list_of_subsets) -> {0, 1}]
    /\ pc = "scan"
    /\ L = Len(list_of_subsets)
    /\ i = 1
    /\ seen = {}
    /\ cur_v = FALSE /\ max_v = NegInf /\ n = 0 /\ result = NegInf
    /\ evaluated = {} /\ other = <<>> /\ result_other = NegInf

\* Position i is not selected: go on.
ScanSkip ==
    /\ pc = "scan" /\ i <= L
    /\ cur[i] # 1
    /\ i' = i + 1
    /\ UNCHANGED <<list_of_subsets, L, cur, cur_v, max_v, pc, n, result, evaluated,
                   other, result_other, seen>>

\* Position i is selected and holds an element already seen: fail at once.
ScanFail ==
    /\ pc = "scan" /\ i <= L
    /\ cur[i] = 1
    /\ already_seen(list_of_subsets[i], seen)
    /\ cur_v' = FALSE
    /\ pc' = "returned"
    /\ UNCHANGED <<list_of_subsets, L, i, cur, max_v, n, result, evaluated, other,
                   result_other, seen>>

\* Position i is selected and new: remember its elements.
ScanPass ==
    /\ pc = "scan" /\ i <= L
    /\ cur[i] = 1
    /\ ~already_seen(list_of_subsets[i], seen)
    /\ seen' = remember(list_of_subsets[i], seen)
    /\ i' = i + 1
    /\ UNCHANGED <<list_of_subsets, L, cur, cur_v, max_v, pc, n, result, evaluated,
                   other, result_other>>

\* Every position was scanned.
ScanEnd ==
    /\ pc = "scan" /\ i > L
    /\ cur_v' = TRUE
    /\ pc' = "returned"
    /\ UNCHANGED <<list_of_subsets, L, i, cur, max_v, n, result, evaluated, other,
                   result_other, seen>>

NextScan == ScanSkip \/ ScanFail \/ ScanPass \/ ScanEnd

SpecScan == InitScan /\ [][NextScan]_vars

\* --- brute_force on a collection and on a reordered or extended one
\* The bijections of 1 .. k onto itself.
Reorderings(k) == {p \in [1 .. k -> 1 .. k] : \A a \in 1 .. k : \E b \in 1 .. k : p[b] = a}

InitRel ==
    /\ list_of_subsets \in Collections(MaxL)
    /\ pc = "call"
    /\ L = Len(list_of_subsets)
    /\ i = 0 /\ cur = <<>> /\ cur_v = FALSE /\ max_v = NegInf /\ n = 0
    /\ result = NegInf /\ evaluated = {} /\ other = <<>>
    /\ result_other = NegInf /\ seen = {}

\* result = brute_force() on list_of_subsets as loaded.
CallBruteForce ==
    /\ pc = "call"
    /\ result' = brute_force(list_of_subsets)
    /\ pc' = "measured"
    /\ UNCHANGED <<list_of_subsets, L, i, cur, cur_v, max_v, n, evaluated, other,
                   result_other, seen>>

\* brute_force() again, on the same subsets at other positions.
Reorder ==
    /\ pc = "measured"
    /\ \E p \in Reorderings(L) :
          other' = [k \in 1 .. L |-> list_of_subsets[p[k]]]
    /\ result_other' = brute_force(other')
    /\ pc' = "reordered"
    /\ UNCHANGED <<list_of_subsets, L, i, cur, cur_v, max_v, n, result, evaluated, seen>>

\* brute_force() again, on list_of_subsets + [subset].
AddSubset ==
    /\ pc = "measured"
    /\ \E subset \in SUBSET Universe :
          other' = Append(list_of_subsets, subset)
    /\ result_other' = brute_force(other')
    /\ pc' = "added"
    /\ UNCHANGED <<list_of_subsets, L, i, cur, cur_v, max_v, n, result, evaluated, seen>>

NextRel == CallBruteForce \/ Reorder \/ AddSubset

SpecRel == InitRel /\ [][NextRel]_vars

\* --- the loop body folded over the candidates in any order
InitAny ==
    /\ list_of_subsets \in Collections(MaxLAny)
    /\ pc = "fold"
    /\ L = Len(list_of_subsets)
    /\ max_v = NegInf
    /\ evaluated = {}
    /\ i = 0 /\ cur = <<>> /\ cur_v = FALSE /\ n = 0 /\ result = NegInf
    /\ other = <<>> /\ result_other = NegInf /\ seen = {}

\* The loop body for a candidate not yet evaluated.
Evaluate ==
    /\ pc = "fold"
    /\ \E c \in (0 .. (max(L) - 1)) \ evaluated :
          /\ i' = c
          /\ cur' = bitfield(c, L)
          /\ cur_v' = check_disjoint(cur', list_of_subsets)
          /\ max_v' = update(max_v, cur', list_of_subsets)
          /\ evaluated' = evaluated \cup {c}
    /\ UNCHANGED <<list_of_subsets, L, pc, n, result, other, result_other, seen>>

\* Every candidate was evaluated.
ReturnAny ==
    /\ pc = "fold"
    /\ evaluated = 0 .. (max(L) - 1)
    /\ result' = max_v
    /\ pc' = "done"
    /\ UNCHANGED <<list_of_subsets, L, i, cur, cur_v, max_v, n, evaluated, other,
                   result_other, seen>>

NextAny == Evaluate \/ ReturnAny

SpecAny == InitAny /\ [][NextAny]_vars

\* ------------------------------------------- what the claims are stated in
\* All selection vectors of length k.
Selections(k) == [1 .. k -> {0, 1}]

\* The largest element of a non-empty set of integers.
SetMax(S) == CHOOSE x \in S : \A y \in S : y <= x

\* The 1-counts of the selection vectors check_disjoint accepts.
ValidCounts(subsets) ==
    {count_nonzero(s) : s \in {t \in Selections(Len(subsets)) : check_disjoint(t, subsets)}}

\* The positions J hold pairwise disjoint subsets.
PairwiseDisjointAt(J, subsets) ==
    \A a \in J : \A b \in J : a # b => subsets[a] \cap subsets[b] = {}

\* The sizes of the pairwise disjoint sub-families of the collection.
PackingSizes(subsets) ==
    {Cardinality(J) : J \in {K \in SUBSET (1 .. Len(subsets)) : PairwiseDisjointAt(K, subsets)}}

\* The positions a selection vector selects.
Selected(selection, subsets) == {k \in 1 .. Len(subsets) : selection[k] = 1}

\* The collection of the notebook, [[4, 5], [4], [5]].
Sample == <<{4, 5}, {4}, {5}>>

\* C1: for L >= 1 brute_force returns exactly the largest 1-count over the
\* selection vectors of length L that check_disjoint accepts, which is the
\* largest size of a pairwise disjoint sub-family; never less, never more.
C1_ReturnsMaximumPacking ==
    (pc = "done" /\ L >= 1) =>
        /\ ~result.neg_inf
        /\ result.v = SetMax(ValidCounts(list_of_subsets))
        /\ result.v = SetMax(PackingSizes(list_of_subsets))

\* A collection of three subsets, two of which overlap, was searched to the end.
C1_Witness ==
    /\ pc = "done" /\ L = 3 /\ result = Fin(2)
    /\ list_of_subsets[1] \cap list_of_subsets[2] # {}

\* C3: for [{4,5}, {4}, {5}] the search returns 2; [0,1,1] is accepted with
\* two 1s and is the only accepted candidate with two 1s; every candidate
\* that takes position 0 together with position 1 or 2 is rejected.
C3_SampleMaximumIsTwo ==
    list_of_subsets = Sample =>
        /\ pc = "done" => result = Fin(2)
        /\ (pc = "loop" /\ i >= 1) =>
              /\ (cur_v /\ count_nonzero(cur) = 2) <=> cur = <<0, 1, 1>>
              /\ (cur[1] = 1 /\ (cur[2] = 1 \/ cur[3] = 1)) => ~cur_v
              /\ i >= 4 => max_v = Fin(2)

\* The sample was searched to the end.
C3_Witness == list_of_subsets = Sample /\ pc = "done" /\ result = Fin(2)

\* C6: for L >= 1 the all-zero selection vector is accepted with size 0, so
\* from the first candidate on the running maximum is a count >= 0, and the
\* value returned is never the initial -infinity.
C6_ResultNeverSentinel ==
    L >= 1 =>
        /\ (pc = "loop" /\ i = 1) =>
              /\ cur = [k \in 1 .. L |-> 0]
              /\ cur_v /\ count_nonzero(cur) = 0 /\ max_v = Fin(0)
        /\ (pc = "loop" /\ i >= 1) => (~max_v.neg_inf /\ max_v.v >= 0)
        /\ pc = "done" => (~result.neg_inf /\ result.v >= 0 /\ result # NegInf)

\* A collection whose subsets all overlap: only the empty and the single
\* selections are accepted.
C6_Witness ==
    /\ pc = "done" /\ L = 3 /\ result = Fin(1)
    /\ \A a \in 1 .. 3 : \A b \in 1 .. 3 : list_of_subsets[a] \cap list_of_subsets[b] # {}

\* The value of a digit sequence read most significant digit first.
RECURSIVE Value(_)
Value(s) == IF Len(s) = 0 THEN 0 ELSE 2 * Value(SubSeq(s, 1, Len(s) - 1)) + s[Len(s)]

\* The multiset union of the selected subsets, from position k on.
RECURSIVE SelectedBag(_, _, _)
SelectedBag(selection, subsets, k) ==
    IF k > Len(subsets) THEN EmptyBag
    ELSE (IF selection[k] = 1 THEN SetToBag(subsets[k]) ELSE EmptyBag)
         (+) SelectedBag(selection, subsets, k + 1)

\* No element occurs twice in the multiset union of the selected subsets.
NoDuplicateInUnion(selection, subsets) ==
    LET B == SelectedBag(selection, subsets, 1)
    IN  \A e \in BagToSet(B) : CopiesIn(e, B) <= 1

\* a >= b for two values of max_v that are counts.
CountGeq(a, b) == ~a.neg_inf /\ ~b.neg_inf /\ a.v >= b.v

\* C2: check_disjoint returns true exactly when every two distinct selected
\* positions hold subsets with empty intersection: false whenever two
\* selected subsets share an element, true when at most one is selected.
C2_CheckDisjointIsPairwise ==
    pc = "returned" =>
        LET S == Selected(cur, list_of_subsets)
        IN  /\ cur_v <=> PairwiseDisjointAt(S, list_of_subsets)
            /\ (\E a \in S : \E b \in S :
                    a # b /\ list_of_subsets[a] \cap list_of_subsets[b] # {}) => ~cur_v
            /\ Cardinality(S) <= 1 => cur_v

\* Two selected subsets, the first and the last, share an element.
C2_Witness ==
    /\ pc = "returned" /\ L = 3 /\ cur = <<1, 0, 1>> /\ ~cur_v
    /\ list_of_subsets[1] \cap list_of_subsets[3] # {}

\* C4: brute_force returns the same maximum for the same subsets at other
\* positions.
C4_InvariantUnderReordering ==
    pc = "reordered" => result_other = result

\* A collection of three different subsets was reordered.
C4_Witness ==
    /\ pc = "reordered" /\ L = 3 /\ other # list_of_subsets
    /\ other[1] = list_of_subsets[3] /\ result = Fin(2)

\* C5: appending a subset that is disjoint from every subset of the
\* collection never yields a smaller maximum than before.
C5_AddDisjointNeverSmaller ==
    (pc = "added" /\ \A k \in 1 .. L : other[L + 1] \cap list_of_subsets[k] = {})
        => CountGeq(result_other, result)

\* A non-empty subset disjoint from the three of the collection was appended.
C5_Witness ==
    /\ pc = "added" /\ L = 3 /\ other[4] # {}
    /\ \A k \in 1 .. 3 : other[4] \cap list_of_subsets[k] = {}
    /\ result = Fin(2)

\* C7: for L >= 1 and 0 <= n < 2^L, bitfield(n, L) has exactly L digits in
\* {0,1}, most significant first and zero-padded on the left, with binary
\* value n; so n = 0 .. 2^L - 1 gives every selection vector exactly once.
C7_BitfieldIsBinaryOfLengthL ==
    (pc = "returned" /\ L >= 1 /\ n < Pow2(L)) =>
        /\ Len(cur) = L
        /\ \A k \in 1 .. Len(cur) : cur[k] \in {0, 1}
        /\ Value(cur) = n
        /\ \A k \in 1 .. L : (n < Pow2(L - k)) => cur[k] = 0
        /\ \A m \in 0 .. (Pow2(L) - 1) : m # n => bitfield(m, L) # cur
        /\ {bitfield(m, L) : m \in 0 .. (Pow2(L) - 1)} = Selections(L)

\* 3 in three digits is [0, 1, 1].
C7_Witness == pc = "returned" /\ n = 3 /\ L = 3 /\ cur = <<0, 1, 1>>

\* C8 as stated: bitfield ends in an error whenever n needs more than L bits.
C8_FailsWhenTooWide ==
    (pc # "call" /\ n >= Pow2(L)) => pc = "raised"

\* C8 as amended: for n >= 2^L bitfield raises nothing and returns the whole
\* binary representation of n: more than L digits, the first one 1, with
\* binary value n, never one cut down to L digits.
C8_ReturnsLongerWhenTooWide ==
    (pc # "call" /\ n >= Pow2(L)) =>
        /\ pc = "returned"
        /\ Len(cur) > L
        /\ \A k \in 1 .. Len(cur) : cur[k] \in {0, 1}
        /\ cur[1] = 1
        /\ Value(cur) = n

\* 9 in three digits came back as the four digits [1, 0, 0, 1].
C8_Witness == pc = "returned" /\ n = 9 /\ L = 3 /\ cur = <<1, 0, 0, 1>>

\* The 1-counts of the accepted candidates among those evaluated so far.
EvaluatedValidCounts ==
    {count_nonzero(bitfield(c, L)) :
        c \in {d \in evaluated : check_disjoint(bitfield(d, L), list_of_subsets)}}

\* C9: in whatever order the candidates are folded, the running maximum is
\* the largest accepted 1-count among the candidates evaluated so far, and
\* the final value is the one the sequential loop 0 .. 2^L - 1 returns.
C9_OrderIndependent ==
    /\ pc \in {"fold", "done"} =>
          max_v = IF EvaluatedValidCounts = {} THEN NegInf
                  ELSE Fin(SetMax(EvaluatedValidCounts))
    /\ pc = "done" => result = brute_force(list_of_subsets)

\* The fold ended with candidate 0 evaluated last, after the best one.
C9_Witness ==
    /\ pc = "done" /\ L = 2 /\ i = 0 /\ result = Fin(2)

\* The union of the selected subsets before position k.
SeenBefore(selection, subsets, k) ==
    UNION {subsets[j] : j \in {a \in 1 .. (k - 1) : selection[a] = 1}}

\* C10: the single pass with its set of seen elements, failing at the first
\* selected subset with an element already seen, returns what the pairwise
\* definition and the no-duplicate-in-the-multiset-union formulation return.
C10_SinglePassEquivalent ==
    /\ pc = "scan" =>
          /\ seen = SeenBefore(cur, list_of_subsets, i)
          /\ PairwiseDisjointAt({a \in 1 .. (i - 1) : cur[a] = 1}, list_of_subsets)
    /\ pc = "returned" =>
          /\ cur_v = PairwiseDisjointAt(Selected(cur, list_of_subsets), list_of_subsets)
          /\ cur_v = NoDuplicateInUnion(cur, list_of_subsets)
          /\ cur_v = check_disjoint(cur, list_of_subsets)
          /\ ~cur_v => (i <= L /\ cur[i] = 1 /\ list_of_subsets[i] \cap seen # {})

\* The pass failed at the second of three positions, before the end.
C10_Witness ==
    /\ pc = "returned" /\ ~cur_v /\ L = 3 /\ i = 2 /\ cur = <<1, 1, 1>>

====
